---------------------------- MODULE Spec2Model ----------------------------
(***************************************************************************)
(* A model of the usfx sample generator: the wavetable builder, the        *)
(* oscillator, the ADSR envelope, the distortion effect, the per-voice     *)
(* Generator and the Mixer (voice pool and wavetable cache).               *)
(*                                                                         *)
(* f32 values are modelled as extended rationals: a sign bit, a numerator  *)
(* and a denominator, with signed zeros, signed infinities and NaN, and    *)
(* IEEE 754 rules for every special case.  Rounding is the one thing left  *)
(* out: finite results are exact.                                          *)
(***************************************************************************)
EXTENDS Integers, Sequences, FiniteSets, TLC

(***************************************************************************)
(* Bounds of the model.                                                    *)
(***************************************************************************)
\* Longest output buffer handed to Mixer::generate / Envelope::apply.
MaxLen == 3
\* Most Mixer::play calls in one run.
MaxPlays == 2
\* Largest offset an envelope on its own is driven to.
MaxOffset == 8

(***************************************************************************)
(* f32 arithmetic                                                          *)
(***************************************************************************)
RECURSIVE Gcd(_, _)
Gcd(a, b) == IF b = 0 THEN a ELSE Gcd(b, a % b)

Abs(i) == IF i < 0 THEN -i ELSE i

\* A float: sign s (1 or -1), magnitude n/d.  d = 0, n = 1 is an infinity;
\* d = 0, n = 0 is NaN; n = 0, d = 1 is a (signed) zero.
NaN == [s |-> 1, n |-> 0, d |-> 0]

Norm(s, n, d) ==
    IF n = 0 /\ d = 0 THEN NaN
    ELSE IF d = 0 THEN [s |-> s, n |-> 1, d |-> 0]
    ELSE IF n = 0 THEN [s |-> s, n |-> 0, d |-> 1]
    ELSE LET g == Gcd(n, d) IN [s |-> s, n |-> n \div g, d |-> d \div g]

F(n, d) == Norm(IF n < 0 THEN -1 ELSE 1, Abs(n), d)

Zero == F(0, 1)
One == F(1, 1)
Infinity == Norm(1, 1, 0)

IsNaN(x) == x.n = 0 /\ x.d = 0
IsInf(x) == x.n = 1 /\ x.d = 0
IsZero(x) == x.n = 0 /\ x.d = 1
IsFinite(x) == x.d > 0

\* usize as f32
FromInt(i) == F(i, 1)

FNeg(x) == IF IsNaN(x) THEN NaN ELSE [x EXCEPT !.s = -x.s]

FMul(a, b) ==
    IF IsNaN(a) \/ IsNaN(b) THEN NaN
    ELSE Norm(a.s * b.s, a.n * b.n, a.d * b.d)

FDiv(a, b) ==
    IF IsNaN(a) \/ IsNaN(b) THEN NaN
    ELSE Norm(a.s * b.s, a.n * b.d, a.d * b.n)

FAdd(a, b) ==
    IF IsNaN(a) \/ IsNaN(b) THEN NaN
    ELSE IF IsInf(a) /\ IsInf(b) THEN (IF a.s = b.s THEN a ELSE NaN)
    ELSE IF IsInf(a) THEN a
    ELSE IF IsInf(b) THEN b
    ELSE LET sum == a.s * a.n * b.d + b.s * b.n * a.d
         IN  IF sum = 0
             THEN Norm(IF a.s = b.s THEN a.s ELSE 1, 0, 1)
             ELSE Norm(IF sum < 0 THEN -1 ELSE 1, Abs(sum), a.d * b.d)

FSub(a, b) == FAdd(a, FNeg(b))

\* a < b, a <= b, a == b as IEEE 754 compares them (all false on NaN).
FLt(a, b) ==
    IF IsNaN(a) \/ IsNaN(b) THEN FALSE
    ELSE IF IsInf(a) /\ IsInf(b) THEN a.s < b.s
    ELSE a.s * a.n * b.d < b.s * b.n * a.d

FEq(a, b) ==
    IF IsNaN(a) \/ IsNaN(b) THEN FALSE
    ELSE IF IsInf(a) /\ IsInf(b) THEN a.s = b.s
    ELSE a.s * a.n * b.d = b.s * b.n * a.d

FLeq(a, b) == FLt(a, b) \/ FEq(a, b)
FGeq(a, b) == FLeq(b, a)

\* f32::max: the other operand when one is NaN.
FMax(a, b) ==
    IF IsNaN(a) THEN b ELSE IF IsNaN(b) THEN a
    ELSE IF FLt(a, b) THEN b ELSE a

\* f32::signum: 1.0 for +0.0 and up, -1.0 for -0.0 and down, NaN for NaN.
Signum(x) == IF IsNaN(x) THEN NaN ELSE [s |-> x.s, n |-> 1, d |-> 1]

\* x % 1.0 for a finite x >= 0.
FFrac(x) == Norm(x.s, x.n % x.d, x.d)

RECURSIVE IPow(_, _)
IPow(x, k) == IF k = 0 THEN One ELSE FMul(x, IPow(x, k - 1))

\* f32::powf(x, e) for an integer-valued exponent e: pow(x, 0) = 1 for every
\* x, NaN included; pow(+0, e < 0) = +inf.
Powf(x, e) ==
    IF IsZero(e) THEN One
    ELSE IF IsNaN(x) \/ IsNaN(e) THEN NaN
    ELSE CASE e.d = 1 /\ e.s = 1 -> IPow(x, e.n)
           [] e.d = 1 /\ e.s = -1 -> FDiv(One, IPow(x, e.n))


(***************************************************************************)
(* Option<T>: <<>> is None, <<x>> is Some(x).                              *)
(***************************************************************************)
None == <<>>
Some(x) == <<x>>
IsSome(o) == Len(o) = 1
Unwrap(o) == o[1]

(***************************************************************************)
(* oscillator.rs: duty cycles, wavetables, the oscillator                  *)
(***************************************************************************)
DutyCycle == {"Eight", "Quarter", "Third", "Half"}

to_frac(duty_cycle) ==
    CASE duty_cycle = "Eight" -> F(1, 8)
      [] duty_cycle = "Quarter" -> F(1, 4)
      [] duty_cycle = "Third" -> F(33, 100)
      [] duty_cycle = "Half" -> F(1, 2)

DutyCycle_default == "Half"

\* The waveform kinds whose tables are rational numbers.  (Noise, a PCG32
\* stream of the external randomize crate, is not among them.)
OscillatorType == {"Sine", "Saw", "Triangle", "Square"}

\* sin(index * (frequency * 2 pi / sample_rate)), for the arguments that are
\* whole quarter turns: the only ones whose sine is rational.  Any other
\* argument matches no arm: evaluating it is an error.
Sin(index, frequency, sample_rate) ==
    LET quarters == 4 * index * frequency
    IN  CASE quarters % sample_rate = 0 /\ (quarters \div sample_rate) % 4 = 0 -> Zero
          [] quarters % sample_rate = 0 /\ (quarters \div sample_rate) % 4 = 1 -> One
          [] quarters % sample_rate = 0 /\ (quarters \div sample_rate) % 4 = 2 -> Zero
          [] quarters % sample_rate = 0 /\ (quarters \div sample_rate) % 4 = 3 -> FNeg(One)

\* index as f32 / sample_rate as f32 * frequency as f32
Phase(index, frequency, sample_rate) ==
    FMul(FDiv(FromInt(index), FromInt(sample_rate)), FromInt(frequency))

\* One table entry: the closure build_lut maps over 0..buffer_size.
lut_entry(type, index, frequency, duty_cycle, sample_rate) ==
    CASE type = "Sine" -> Sin(index, frequency, sample_rate)
      [] type = "Saw" ->
            FSub(One, FMul(FFrac(Phase(index, frequency, sample_rate)), F(2, 1)))
      [] type = "Triangle" ->
            LET slope == FMul(FFrac(Phase(index, frequency, sample_rate)), F(2, 1))
            IN  IF FLt(slope, One)
                THEN FAdd(FNeg(One), FMul(slope, F(2, 1)))
                ELSE FSub(F(3, 1), FMul(slope, F(2, 1)))
      [] type = "Square" ->
            IF FLt(FFrac(Phase(index, frequency, sample_rate)), to_frac(duty_cycle))
            THEN One
            ELSE FNeg(One)

\* build_lut with a slip: the second half of the table is sign-inverted.
build_lut_inverted_half(type, frequency, duty_cycle, sample_rate) ==
    LET buffer_size == sample_rate * 2
    IN  [j \in 1..buffer_size |->
            IF j <= sample_rate
            THEN lut_entry(type, j - 1, frequency, duty_cycle, sample_rate)
            ELSE FNeg(lut_entry(type, j - 1, frequency, duty_cycle, sample_rate))]

\* build_lut with a slip: the table is sample_rate entries long.
build_lut_single_size(type, frequency, duty_cycle, sample_rate) ==
    LET buffer_size == sample_rate
    IN  [j \in 1..buffer_size |->
            lut_entry(type, j - 1, frequency, duty_cycle, sample_rate)]

\* OscillatorType::build_lut: a table of 2 * sample_rate entries; entry
\* index of the code is element index + 1 here.
build_lut(type, frequency, duty_cycle, sample_rate) ==
    LET buffer_size == sample_rate * 2
    IN  [j \in 1..buffer_size |->
            lut_entry(type, j - 1, frequency, duty_cycle, sample_rate)]

\* Oscillator::generate: output zipped with lut[rotating_index..]; the zip
\* ends with the shorter of the two, so positions past the table's end keep
\* their value.
Oscillator_generate(oscillator, output, offset) ==
    LET rotating_index == offset % oscillator.sample_rate
    IN  [k \in 1..Len(output) |->
            IF rotating_index + k <= Len(oscillator.lut)
            THEN FAdd(output[k], oscillator.lut[rotating_index + k])
            ELSE output[k]]

\* The table indices (of the code, from 0) that the zip of
\* Oscillator::generate reads for an output of len samples.
Oscillator_reads(oscillator, len, offset) ==
    LET rotating_index == offset % oscillator.sample_rate
    IN  {rotating_index + k : k \in {j \in 0..(len - 1) :
                                        rotating_index + j < Len(oscillator.lut)}}

Oscillator_new(lut, sample_rate) == [lut |-> lut, sample_rate |-> sample_rate]

(***************************************************************************)
(* envelope.rs: the ADSR envelope                                          *)
(***************************************************************************)
\* enum State: Attack, Decay(usize), Release(usize), Done.  `at` is the
\* variant's payload (0 where the variant has none).
Attack == [tag |-> "Attack", at |-> 0]
Decay(last_offset) == [tag |-> "Decay", at |-> last_offset]
Release(last_offset) == [tag |-> "Release", at |-> last_offset]
Done == [tag |-> "Done", at |-> 0]

\* Envelope::new with a slip: the attack slope is per second, not per sample.
Envelope_new_attack_per_second(sample_rate, attack, decay, sustain, release) ==
    [attack_slope |-> FDiv(One, attack),
     decay_slope |-> FDiv(FDiv(FDiv(One, decay), sustain), sample_rate),
     sustain_height |-> sustain,
     release_slope |-> FDiv(FDiv(FDiv(One, release), sustain), sample_rate),
     state |-> Attack]

Envelope_new(sample_rate, attack, decay, sustain, release) ==
    [attack_slope |-> FDiv(FDiv(One, attack), sample_rate),
     decay_slope |-> FDiv(FDiv(FDiv(One, decay), sustain), sample_rate),
     sustain_height |-> sustain,
     release_slope |-> FDiv(FDiv(FDiv(One, release), sustain), sample_rate),
     state |-> Attack]

\* Envelope_next_state with a slip: the end of Release re-triggers the
\* envelope (back to Attack) where the code goes to Done.
Envelope_next_state_retrigger(envelope, index_with_offset) ==
    LET state == envelope.state
    IN  CASE state.tag = "Attack" ->
                LET multiplier == FMul(FromInt(index_with_offset), envelope.attack_slope)
                IN  IF FGeq(multiplier, One) THEN Decay(index_with_offset) ELSE state
          [] state.tag = "Decay" ->
                LET multiplier ==
                        FSub(One, FMul(FromInt(index_with_offset - state.at),
                                       envelope.decay_slope))
                IN  IF FLeq(multiplier, envelope.sustain_height)
                    THEN Release(index_with_offset)
                    ELSE state
          [] state.tag = "Release" ->
                LET multiplier ==
                        FSub(envelope.sustain_height,
                             FMul(FromInt(index_with_offset - state.at),
                                  envelope.release_slope))
                IN  IF FLeq(multiplier, Zero) THEN Attack ELSE state
          [] state.tag = "Done" -> state

\* The new state after the sample at index_with_offset (the match arms'
\* assignments to self.state).
Envelope_next_state(envelope, index_with_offset) ==
    LET state == envelope.state
    IN  CASE state.tag = "Attack" ->
                LET multiplier == FMul(FromInt(index_with_offset), envelope.attack_slope)
                IN  IF FGeq(multiplier, One) THEN Decay(index_with_offset) ELSE state
          [] state.tag = "Decay" ->
                LET multiplier ==
                        FSub(One, FMul(FromInt(index_with_offset - state.at),
                                       envelope.decay_slope))
                IN  IF FLeq(multiplier, envelope.sustain_height)
                    THEN Release(index_with_offset)
                    ELSE state
          [] state.tag = "Release" ->
                LET multiplier ==
                        FSub(envelope.sustain_height,
                             FMul(FromInt(index_with_offset - state.at),
                                  envelope.release_slope))
                IN  IF FLeq(multiplier, Zero) THEN Done ELSE state
          [] state.tag = "Done" -> state

\* Envelope_tone with a slip: Done leaves the sample as it is.
Envelope_tone_done_passes(envelope, tone, index_with_offset) ==
    LET state == envelope.state
    IN  CASE state.tag = "Attack" ->
                FMul(tone, FMul(FromInt(index_with_offset), envelope.attack_slope))
          [] state.tag = "Decay" ->
                FMul(tone, FSub(One, FMul(FromInt(index_with_offset - state.at),
                                          envelope.decay_slope)))
          [] state.tag = "Release" ->
                FMul(tone, FSub(envelope.sustain_height,
                                FMul(FromInt(index_with_offset - state.at),
                                     envelope.release_slope)))
          [] state.tag = "Done" -> tone

\* The sample's new value (the match arms' assignments to *tone).
Envelope_tone(envelope, tone, index_with_offset) ==
    LET state == envelope.state
    IN  CASE state.tag = "Attack" ->
                FMul(tone, FMul(FromInt(index_with_offset), envelope.attack_slope))
          [] state.tag = "Decay" ->
                FMul(tone, FSub(One, FMul(FromInt(index_with_offset - state.at),
                                          envelope.decay_slope)))
          [] state.tag = "Release" ->
                FMul(tone, FSub(envelope.sustain_height,
                                FMul(FromInt(index_with_offset - state.at),
                                     envelope.release_slope)))
          [] state.tag = "Done" -> Zero

\* Envelope::apply on the first `count` samples of the buffer, each under
\* the state its predecessors left: the envelope (apply returns its state)
\* and those samples.
RECURSIVE Envelope_apply_first(_, _, _, _)
Envelope_apply_first(envelope, buffer, offset, count) ==
    IF count = 0 THEN [envelope |-> envelope, buffer |-> <<>>]
    ELSE LET done == Envelope_apply_first(envelope, buffer, offset, count - 1)
             index_with_offset == (count - 1) + offset
         IN  [envelope |->
                [done.envelope EXCEPT
                    !.state = Envelope_next_state(done.envelope, index_with_offset)],
              buffer |->
                Append(done.buffer,
                       Envelope_tone(done.envelope, buffer[count], index_with_offset))]

\* Envelope::apply
Envelope_apply(envelope, buffer, offset) ==
    Envelope_apply_first(envelope, buffer, offset, Len(buffer))

(***************************************************************************)
(* effects/distortion.rs                                                   *)
(***************************************************************************)
Distortion_new(crunch, drive) ==
    [crunch |-> FSub(One, FMax(crunch, F(1, 100))), drive |-> drive]

Distortion_tone(distortion, tone) ==
    LET x == FMul(tone, distortion.drive)
        sign == Signum(x)
    IN  FMul(Powf(FMul(x, sign), distortion.crunch), sign)

Distortion_apply(distortion, buffer) ==
    [k \in 1..Len(buffer) |-> Distortion_tone(distortion, buffer[k])]

(***************************************************************************)
(* lib.rs: Sample, Generator, Mixer                                        *)
(***************************************************************************)
\* Sample::default()
Sample_default ==
    [volume |-> One,
     osc_frequency |-> 441,
     osc_type |-> "Sine",
     osc_duty_cycle |-> DutyCycle_default,
     env_attack |-> F(1, 100),
     env_decay |-> F(1, 10),
     env_sustain |-> F(1, 2),
     env_release |-> F(1, 2),
     dis_crunch |-> None,
     dis_drive |-> None]

\* Generator::run with a slip: the volume is applied before the distortion.
Generator_run_volume_first(generator, output) ==
    LET oscillated ==
            Oscillator_generate(generator.oscillator, output, generator.offset)
        enveloped == Envelope_apply(generator.envelope, oscillated, generator.offset)
        scaled ==
            IF ~FEq(generator.volume, One)
            THEN [k \in 1..Len(output) |-> FMul(enveloped.buffer[k], generator.volume)]
            ELSE enveloped.buffer
        distorted ==
            IF IsSome(generator.distortion)
            THEN Distortion_apply(Unwrap(generator.distortion), scaled)
            ELSE scaled
    IN  [generator |->
            [generator EXCEPT
                !.finished = IF enveloped.envelope.state = Done
                             THEN TRUE
                             ELSE generator.finished,
                !.envelope = enveloped.envelope,
                !.offset = generator.offset + Len(output)],
         output |-> distorted]

\* Generator::run with a slip: the finished flag is never set.
Generator_run_never_finished(generator, output) ==
    LET oscillated ==
            Oscillator_generate(generator.oscillator, output, generator.offset)
        enveloped == Envelope_apply(generator.envelope, oscillated, generator.offset)
        distorted ==
            IF IsSome(generator.distortion)
            THEN Distortion_apply(Unwrap(generator.distortion), enveloped.buffer)
            ELSE enveloped.buffer
        scaled ==
            IF ~FEq(generator.volume, One)
            THEN [k \in 1..Len(distorted) |-> FMul(distorted[k], generator.volume)]
            ELSE distorted
    IN  [generator |->
            [generator EXCEPT
                !.envelope = enveloped.envelope,
                !.offset = generator.offset + Len(output)],
         output |-> scaled]

\* Generator::run with a slip: the offset is not advanced by the call that
\* reaches Done.
Generator_run_offset_stops_at_done(generator, output) ==
    LET oscillated ==
            Oscillator_generate(generator.oscillator, output, generator.offset)
        enveloped == Envelope_apply(generator.envelope, oscillated, generator.offset)
        distorted ==
            IF IsSome(generator.distortion)
            THEN Distortion_apply(Unwrap(generator.distortion), enveloped.buffer)
            ELSE enveloped.buffer
        scaled ==
            IF ~FEq(generator.volume, One)
            THEN [k \in 1..Len(distorted) |-> FMul(distorted[k], generator.volume)]
            ELSE distorted
    IN  [generator |->
            [generator EXCEPT
                !.finished = IF enveloped.envelope.state = Done
                             THEN TRUE
                             ELSE generator.finished,
                !.envelope = enveloped.envelope,
                !.offset = IF enveloped.envelope.state = Done
                           THEN generator.offset
                           ELSE generator.offset + Len(output)],
         output |-> scaled]

\* Generator::run with a slip: the offset is not advanced.
Generator_run_offset_kept(generator, output) ==
    LET oscillated ==
            Oscillator_generate(generator.oscillator, output, generator.offset)
        enveloped == Envelope_apply(generator.envelope, oscillated, generator.offset)
        distorted ==
            IF IsSome(generator.distortion)
            THEN Distortion_apply(Unwrap(generator.distortion), enveloped.buffer)
            ELSE enveloped.buffer
        scaled ==
            IF ~FEq(generator.volume, One)
            THEN [k \in 1..Len(distorted) |-> FMul(distorted[k], generator.volume)]
            ELSE distorted
    IN  [generator |->
            [generator EXCEPT
                !.finished = IF enveloped.envelope.state = Done
                             THEN TRUE
                             ELSE generator.finished,
                !.envelope = enveloped.envelope],
         output |-> scaled]

\* Generator::run on the buffer it is handed: oscillator, envelope,
\* distortion, volume, each over the whole buffer; then the offset.
Generator_run(generator, output) ==
    LET oscillated ==
            Oscillator_generate(generator.oscillator, output, generator.offset)
        enveloped == Envelope_apply(generator.envelope, oscillated, generator.offset)
        distorted ==
            IF IsSome(generator.distortion)
            THEN Distortion_apply(Unwrap(generator.distortion), enveloped.buffer)
            ELSE enveloped.buffer
        scaled ==
            IF ~FEq(generator.volume, One)
            THEN [k \in 1..Len(distorted) |-> FMul(distorted[k], generator.volume)]
            ELSE distorted
    IN  [generator |->
            [generator EXCEPT
                !.finished = IF enveloped.envelope.state = Done
                             THEN TRUE
                             ELSE generator.finished,
                !.envelope = enveloped.envelope,
                !.offset = generator.offset + Len(output)],
         output |-> scaled]

\* self.generators.iter_mut().for_each(|generator| generator.run(output)):
\* the first `count` generators run, in order, on the one buffer.
RECURSIVE run_generators(_, _, _)
run_generators(generators, output, count) ==
    IF count = 0 THEN [generators |-> generators, output |-> output]
    ELSE LET before == run_generators(generators, output, count - 1)
             ran == Generator_run(before.generators[count], before.output)
         IN  [generators |-> [before.generators EXCEPT ![count] = ran.generator],
              output |-> ran.output]

\* Vec::retain(|generator| !generator.finished)
retain_unfinished(generators) ==
    SelectSeq(generators, LAMBDA generator : ~generator.finished)

\* 1.0 / generators_len as f32
buffer_len_inv(generators_len) == FDiv(One, FromInt(generators_len))

\* zero_buffer with a slip: the buffer is left as the caller handed it.
zero_buffer_skipped(output) == output

\* output.iter_mut().for_each(|tone| *tone = 0.0)
zero_buffer(output) == [k \in 1..Len(output) |-> Zero]

\* Mixer::generate with a slip: the sum is divided by the number of voices
\* left after the finished ones are removed.
Mixer_generate_count_after(generators, output) ==
    LET zeroed == zero_buffer(output)
        generators_len == Len(generators)
        ran == run_generators(generators, zeroed, generators_len)
        retained == retain_unfinished(ran.generators)
    IN  IF generators_len = 0
        THEN [generators |-> generators, output |-> zeroed]
        ELSE [generators |-> retained,
              output |-> [k \in 1..Len(output) |->
                            FMul(ran.output[k], buffer_len_inv(Len(retained)))]]

\* Mixer::generate with a slip: the finished voices are removed before the
\* generators run, so a voice that finishes in this call stays until the
\* next.
Mixer_generate_retain_first(generators, output) ==
    LET zeroed == zero_buffer(output)
        generators_len == Len(generators)
        retained == retain_unfinished(generators)
        ran == run_generators(retained, zeroed, Len(retained))
    IN  IF generators_len = 0
        THEN [generators |-> generators, output |-> zeroed]
        ELSE [generators |-> ran.generators,
              output |-> [k \in 1..Len(output) |->
                            FMul(ran.output[k], buffer_len_inv(generators_len))]]

\* Mixer::generate
Mixer_generate(generators, output) ==
    LET zeroed == zero_buffer(output)
        generators_len == Len(generators)
        ran == run_generators(generators, zeroed, generators_len)
    IN  IF generators_len = 0
        THEN [generators |-> generators, output |-> zeroed]
        ELSE [generators |-> retain_unfinished(ran.generators),
              output |-> [k \in 1..Len(output) |->
                            FMul(ran.output[k], buffer_len_inv(generators_len))]]

\* The key of the HashMap oscillator_lookup.
lookup_key(frequency, oscillator_type) == <<frequency, oscillator_type>>

\* Mixer::oscillator_buffer with a slip: a new table evicts the cached ones.
Mixer_oscillator_buffer_evicting(lookup, rate, sample) ==
    LET key == lookup_key(sample.osc_frequency, sample.osc_type)
    IN  IF key \in DOMAIN lookup
        THEN [lookup |-> lookup, buffer |-> lookup[key], built |-> FALSE]
        ELSE LET lut == build_lut(sample.osc_type, sample.osc_frequency,
                                  sample.osc_duty_cycle, rate)
             IN  [lookup |-> [k \in {key} |-> lut],
                  buffer |-> lut,
                  built |-> TRUE]

\* Mixer::oscillator_buffer with a slip: the table is built on a hit too.
Mixer_oscillator_buffer_rebuilding(lookup, rate, sample) ==
    LET key == lookup_key(sample.osc_frequency, sample.osc_type)
        lut == build_lut(sample.osc_type, sample.osc_frequency,
                         sample.osc_duty_cycle, rate)
    IN  [lookup |-> [k \in DOMAIN lookup \cup {key} |->
                        IF k = key THEN lut ELSE lookup[k]],
         buffer |-> lut,
         built |-> TRUE]

\* Mixer::oscillator_buffer: the cached table's clone, or a new table that
\* is inserted and cloned.  `built` tells whether build_lut was called.
Mixer_oscillator_buffer(lookup, rate, sample) ==
    LET key == lookup_key(sample.osc_frequency, sample.osc_type)
    IN  IF key \in DOMAIN lookup
        THEN [lookup |-> lookup, buffer |-> lookup[key], built |-> FALSE]
        ELSE LET lut == build_lut(sample.osc_type, sample.osc_frequency,
                                  sample.osc_duty_cycle, rate)
             IN  [lookup |-> [k \in DOMAIN lookup \cup {key} |->
                                IF k = key THEN lut ELSE lookup[k]],
                  buffer |-> lut,
                  built |-> TRUE]

\* The Generator that Mixer::play builds.
new_generator(rate, sample, buffer) ==
    [finished |-> FALSE,
     offset |-> 0,
     volume |-> sample.volume,
     oscillator |-> Oscillator_new(buffer, rate),
     envelope |-> Envelope_new(FromInt(rate), sample.env_attack, sample.env_decay,
                               sample.env_sustain, sample.env_release),
     distortion |->
        CASE IsSome(sample.dis_crunch) /\ IsSome(sample.dis_drive) ->
                Some(Distortion_new(Unwrap(sample.dis_crunch), Unwrap(sample.dis_drive)))
          [] IsSome(sample.dis_crunch) /\ ~IsSome(sample.dis_drive) ->
                Some(Distortion_new(Unwrap(sample.dis_crunch), One))
          [] ~IsSome(sample.dis_crunch) /\ IsSome(sample.dis_drive) ->
                Some(Distortion_new(Zero, Unwrap(sample.dis_drive)))
          [] ~IsSome(sample.dis_crunch) /\ ~IsSome(sample.dis_drive) -> None]

\* Mixer::play with a slip: the new voice replaces the pool.
Mixer_play_replace(gens, lookup, rate, sample) ==
    LET cached == Mixer_oscillator_buffer(lookup, rate, sample)
    IN  [generators |-> <<new_generator(rate, sample, cached.buffer)>>,
         oscillator_lookup |-> cached.lookup,
         built |-> cached.built]

\* Mixer::play
Mixer_play(gens, lookup, rate, sample) ==
    LET cached == Mixer_oscillator_buffer(lookup, rate, sample)
    IN  [generators |-> Append(gens, new_generator(rate, sample, cached.buffer)),
         oscillator_lookup |-> cached.lookup,
         built |-> cached.built]

(***************************************************************************)
(* The inputs of the model                                                 *)
(***************************************************************************)
\* Mixer::new(sample_rate).  Every quarter turn of a sine is a table index
\* at this rate, so the sine table is rational.
SampleRates == {4}

\* The samples handed to Mixer::play, built as a caller builds them: the
\* default sample with its setters applied.  Times are in seconds.
Sample_saw ==
    [Sample_default EXCEPT
        !.osc_type = "Saw", !.osc_frequency = 1,
        !.env_attack = F(1, 2), !.env_decay = F(1, 2),
        !.env_sustain = F(1, 2), !.env_release = F(1, 2)]

Sample_square ==
    [Sample_default EXCEPT
        !.osc_type = "Square", !.osc_frequency = 1, !.osc_duty_cycle = "Quarter",
        !.volume = F(1, 2),
        !.env_attack = Zero, !.env_decay = F(1, 2),
        !.env_sustain = One, !.env_release = F(1, 2),
        !.dis_crunch = Some(One), !.dis_drive = Some(F(1, 2))]

Sample_sine ==
    [Sample_default EXCEPT
        !.osc_type = "Sine", !.osc_frequency = 1,
        !.env_attack = F(1, 2), !.env_decay = One,
        !.env_sustain = F(1, 2), !.env_release = One]

Sample_triangle ==
    [Sample_default EXCEPT
        !.osc_type = "Triangle", !.osc_frequency = 1,
        !.volume = F(2, 1),
        !.env_attack = F(1, 4), !.env_decay = One,
        !.env_sustain = F(1, 2), !.env_release = F(1, 4),
        !.dis_crunch = Some(F(2, 1))]

Samples == {Sample_saw, Sample_square, Sample_sine, Sample_triangle}

\* What the caller's buffer holds when it is handed to Mixer::generate.
BufferFills == {One, NaN}

\* The envelope parameters of the envelope-only specification.
EnvTimes == {Zero, F(1, 4), F(1, 2), One}
EnvSustains == {Zero, F(1, 2), One, F(2, 1)}

(***************************************************************************)
(* State                                                                   *)
(***************************************************************************)
VARIABLES
    sample_rate,        \* Mixer.sample_rate
    generators,         \* Mixer.generators
    oscillator_lookup,  \* Mixer.oscillator_lookup
    output,             \* the caller's buffer after the last Mixer::generate
    plays,              \* the number of Mixer::play calls so far
    op,                 \* the last call: "new", "play" or "generate"
    pre,                \* the mixer as the last call found it, and the call's sample
    requested,          \* the keys Mixer::oscillator_buffer was called with so far
    builds,             \* the number of build_lut calls so far
    tick,               \* flips at every generate call of the callback (SpecFair)
    env,                \* one Envelope on its own
    env_args,           \* the arguments Envelope::new built it from
    env_offset,         \* the offset its next apply call is handed
    env_trace,          \* its state before and after each sample of the last call
    env_gains,          \* the last call's buffer: ones times the gain of each sample
    osc,                \* one Oscillator on its own
    osc_offset,         \* the offset of its last rendering
    osc_whole,          \* the rendering in one generate call
    osc_split           \* the same rendering in two generate calls

vars == <<sample_rate, generators, oscillator_lookup, output, plays, op, pre,
          requested, builds, tick,
          env, env_args, env_offset, env_trace, env_gains,
          osc, osc_offset, osc_whole, osc_split>>

mixer_vars == <<sample_rate, generators, oscillator_lookup, output, plays, op, pre,
                requested, builds, tick>>
env_vars == <<env, env_args, env_offset, env_trace, env_gains>>
osc_vars == <<osc, osc_offset, osc_whole, osc_split>>

snapshot ==
    [generators |-> generators, oscillator_lookup |-> oscillator_lookup,
     builds |-> builds, sample |-> None]

\* Mixer::new(sample_rate)
Mixer_new ==
    /\ sample_rate \in SampleRates
    /\ generators = <<>>
    /\ oscillator_lookup = [key \in {} |-> <<>>]
    /\ output = <<>>
    /\ plays = 0
    /\ op = "new"
    /\ pre = [generators |-> <<>>, oscillator_lookup |-> [key \in {} |-> <<>>],
              builds |-> 0, sample |-> None]
    /\ requested = {}
    /\ builds = 0
    /\ tick = 0

\* The arguments of Envelope::new, as Mixer::play passes them.
envelope_args(attack, decay, sustain, release) ==
    [attack |-> attack, decay |-> decay, sustain |-> sustain, release |-> release]

\* Envelope::new(sample_rate as f32, attack, decay, sustain, release), no
\* apply call made yet.
Envelope_fresh(attack, decay, sustain, release) ==
    /\ env = Envelope_new(FromInt(sample_rate), attack, decay, sustain, release)
    /\ env_args = envelope_args(attack, decay, sustain, release)
    /\ env_offset = 0
    /\ env_trace = <<>>
    /\ env_gains = <<>>

\* Oscillator::new(lut, sample_rate), no generate call made yet.
Oscillator_fresh(lut) ==
    /\ osc = Oscillator_new(lut, sample_rate)
    /\ osc_offset = 0
    /\ osc_whole = <<>>
    /\ osc_split = <<<<>>, <<>>>>

\* Mixer::new
Init ==
    /\ Mixer_new
    /\ Envelope_fresh(One, One, One, One)
    /\ Oscillator_fresh(<<>>)

\* mixer.play(sample)
Play(sample) ==
    /\ plays < MaxPlays
    /\ plays' = plays + 1
    /\ LET played == Mixer_play(generators, oscillator_lookup, sample_rate, sample)
       IN  /\ generators' = played.generators
           /\ oscillator_lookup' = played.oscillator_lookup
           /\ builds' = builds + (IF played.built THEN 1 ELSE 0)
    /\ requested' = requested \cup {lookup_key(sample.osc_frequency, sample.osc_type)}
    /\ op' = "play"
    /\ pre' = [snapshot EXCEPT !.sample = Some(sample)]
    /\ UNCHANGED <<sample_rate, output, tick>>
    /\ UNCHANGED env_vars
    /\ UNCHANGED osc_vars

\* What mixer.generate(&mut buffer) does to the mixer, the buffer len long
\* and holding fill.
Generate_call(len, fill) ==
    /\ LET buffer == [k \in 1..len |-> fill]
           generated == Mixer_generate(generators, buffer)
       IN  /\ generators' = generated.generators
           /\ output' = generated.output
    /\ pre' = snapshot
    /\ op' = "generate"
    /\ UNCHANGED <<sample_rate, oscillator_lookup, plays, requested, builds>>
    /\ UNCHANGED env_vars
    /\ UNCHANGED osc_vars

\* mixer.generate(&mut buffer), whoever calls it
Generate(len, fill) ==
    /\ Generate_call(len, fill)
    /\ UNCHANGED tick

Next ==
    \/ \E sample \in Samples : Play(sample)
    \/ \E len \in 0..MaxLen, fill \in BufferFills : Generate(len, fill)

Spec == Init /\ [][Next]_vars

(***************************************************************************)
(* One envelope on its own: Envelope::new with any of the parameters, then *)
(* apply call after apply call, each handed the running offset as          *)
(* Generator::run hands it.                                                *)
(***************************************************************************)
InitEnvelope ==
    /\ Mixer_new
    /\ \E attack \in EnvTimes, decay \in EnvTimes,
          sustain \in EnvSustains, release \in EnvTimes :
            Envelope_fresh(attack, decay, sustain, release)
    /\ Oscillator_fresh(<<>>)

\* envelope.apply(&mut buffer, offset) on a buffer of len ones
EnvApply(len) ==
    /\ env_offset + len <= MaxOffset
    /\ LET buffer == [k \in 1..len |-> One]
           applied == Envelope_apply(env, buffer, env_offset)
       IN  /\ env' = applied.envelope
           /\ env_gains' = applied.buffer
           /\ env_trace' =
                <<env.state>> \o
                [k \in 1..len |->
                    Envelope_apply_first(env, buffer, env_offset, k).envelope.state]
    /\ env_offset' = env_offset + len
    /\ UNCHANGED env_args
    /\ UNCHANGED mixer_vars
    /\ UNCHANGED osc_vars

NextEnvelope == \E len \in 0..MaxLen : EnvApply(len)

SpecEnvelope == InitEnvelope /\ [][NextEnvelope]_vars

(***************************************************************************)
(* Properties                                                              *)
(***************************************************************************)
Zeros(len) == [k \in 1..len |-> Zero]

\* What one voice renders on its own: Generator::run on a zeroed buffer of
\* its own.
shaped(generator, len) == Generator_run(generator, Zeros(len)).output

\* shaped_1[k] + ... + shaped_count[k], summed from 0.0 in pool order.
RECURSIVE sum_shaped(_, _, _, _)
sum_shaped(voices, len, k, count) ==
    IF count = 0 THEN Zero
    ELSE FAdd(sum_shaped(voices, len, k, count - 1), shaped(voices[count], len)[k])

\* The mix of private buffers: (1/n) * SUM over the voices of shaped_v[k].
mix_private(voices, len) ==
    [k \in 1..len |->
        FMul(sum_shaped(voices, len, k, Len(voices)),
             FDiv(One, FromInt(Len(voices))))]

\* C1: for a pool of n >= 1 voices, one Mixer::generate call writes to every
\* position k the value (1/n) * SUM over the voices v of shaped_v[k], each
\* shaped_v rendered in a buffer of the voice's own that starts at zero.
C1_MixOfPrivateBuffers ==
    (op = "generate" /\ Len(pre.generators) >= 1)
        => output = mix_private(pre.generators, Len(output))

\* C2: when the pool holds two identical voices, the fill output equals,
\* sample for sample, the output of a mixer that holds one such voice.
C2_TwoIdenticalVoices ==
    (op = "generate" /\ Len(pre.generators) = 2
        /\ pre.generators[1] = pre.generators[2])
        => output = Mixer_generate(<<pre.generators[1]>>, Zeros(Len(output))).output

\* The envelope state a voice's envelope is in when it comes to the sample
\* at position k (1-based) of a buffer that starts at `offset`.
RECURSIVE state_at(_, _, _)
state_at(envelope, offset, k) ==
    IF k = 1 THEN envelope
    ELSE LET earlier == state_at(envelope, offset, k - 1)
         IN  [earlier EXCEPT
                !.state = Envelope_next_state(earlier, offset + (k - 2))]

\* volume * distort(gain(offset + k) * table[(offset mod sample_rate) + k])
\* for the sample at position k (1-based) of the voice's next buffer.
shaped_sample(generator, k) ==
    LET table == generator.oscillator.lut
        index == (generator.offset % generator.oscillator.sample_rate) + k
        gained == Envelope_tone(state_at(generator.envelope, generator.offset, k),
                                table[index], generator.offset + (k - 1))
        distorted == IF IsSome(generator.distortion)
                     THEN Distortion_tone(Unwrap(generator.distortion), gained)
                     ELSE gained
    IN  FMul(distorted, generator.volume)

\* C3: with exactly one voice in the pool, the fill output at every position
\* k is that voice's own shaped sample, the stages applied in the order
\* oscillator, envelope, distortion, volume, and the 1/n normalization
\* changes nothing (for the positions the table has an entry for).
C3_SingleVoiceIdentity ==
    (op = "generate" /\ Len(pre.generators) = 1)
        => \A k \in 1..Len(output) :
            LET voice == pre.generators[1]
            IN  (voice.offset % voice.oscillator.sample_rate) + k
                    <= Len(voice.oscillator.lut)
                => output[k] = shaped_sample(voice, k)

\* A single voice with distortion and a volume other than 1.0 has rendered a
\* buffer in which its envelope moved on.
C3_Witness ==
    /\ op = "generate"
    /\ Len(pre.generators) = 1
    /\ IsSome(pre.generators[1].distortion)
    /\ ~FEq(pre.generators[1].volume, One)
    /\ Len(output) = MaxLen
    /\ Len(generators) = 1
    /\ generators[1].envelope.state # pre.generators[1].envelope.state

\* C4: when the pool is empty, fill writes 0.0 to every position of the
\* buffer, whatever the buffer held, and leaves the pool and the table cache
\* unchanged.
C4_Silence ==
    (op = "generate" /\ pre.generators = <<>>)
        => /\ \A k \in 1..Len(output) : output[k] = Zero
           /\ generators = <<>>
           /\ oscillator_lookup = pre.oscillator_lookup

\* A buffer of MaxLen stale values was filled by a mixer whose pool is empty
\* and whose cache is not.
C4_Witness ==
    /\ op = "generate"
    /\ pre.generators = <<>>
    /\ Len(output) = MaxLen
    /\ DOMAIN oscillator_lookup # {}
    /\ \A fill \in BufferFills : fill # Zero

\* C5: the summed buffer is multiplied by 1/n, n the number of voices in the
\* pool when the call began, voices removed during the call included.
C5_PreRemovalCount ==
    (op = "generate" /\ Len(pre.generators) >= 1)
        => LET n == Len(pre.generators)
               summed == run_generators(pre.generators, Zeros(Len(output)), n).output
           IN  output = [k \in 1..Len(output) |->
                            FMul(summed[k], FDiv(One, FromInt(n)))]

\* A call that began with two voices and removed one of them wrote a sample
\* that is neither zero nor infinite nor NaN.
C5_Witness ==
    /\ op = "generate"
    /\ Len(pre.generators) = 2
    /\ Len(generators) = 1
    /\ \E k \in 1..Len(output) : IsFinite(output[k]) /\ ~IsZero(output[k])

\* Whether the voice's envelope is in Done after a buffer of len samples.
reaches_done(generator, len) ==
    Envelope_apply(generator.envelope, Zeros(len), generator.offset).envelope.state
        = Done

\* The voice as a call of len samples leaves it.
after_run(generator, len) == Generator_run(generator, Zeros(len)).generator

\* C6: after every fill call, the pool holds no voice whose envelope reached
\* Done.
C6_NoDoneVoiceInPool ==
    op = "generate"
        => \A i \in 1..Len(generators) :
            /\ generators[i].envelope.state.tag # "Done"
            /\ ~generators[i].finished

\* One voice reached Done during the call and another voice stays.
C6_Witness ==
    /\ op = "generate"
    /\ \E i \in 1..Len(pre.generators) : reaches_done(pre.generators[i], Len(output))
    /\ Len(generators) >= 1

\* C7, as claimed: a voice whose envelope reaches Done during a fill call is
\* still in the pool, marked finished, when that call returns.
C7_StillInPoolAfterCall ==
    op = "generate"
        => \A i \in 1..Len(pre.generators) :
            reaches_done(pre.generators[i], Len(output))
                => \E j \in 1..Len(generators) :
                    generators[j] = after_run(pre.generators[i], Len(output))

\* C7, amended: a voice whose envelope reaches Done during a fill call is
\* removed by that same call: it is not in the pool when the call returns,
\* and the pool has shrunk by the number of such voices.
C7_RemovedInSameCall ==
    op = "generate"
        => /\ \A i \in 1..Len(pre.generators) :
                reaches_done(pre.generators[i], Len(output))
                    => ~\E j \in 1..Len(generators) :
                        generators[j] = after_run(pre.generators[i], Len(output))
           /\ Len(generators) =
                Len(pre.generators)
                - Cardinality({i \in 1..Len(pre.generators) :
                                reaches_done(pre.generators[i], Len(output))})

\* The only voice of the pool reached Done during the call, which left the
\* pool empty.
C7_Witness ==
    /\ op = "generate"
    /\ Len(pre.generators) = 1
    /\ reaches_done(pre.generators[1], Len(output))
    /\ generators = <<>>

\* C8: play appends exactly one new voice and leaves the others as they
\* are; fill adds no voice, and every voice whose envelope is in Attack,
\* Decay or Release when a fill call ends is still in the pool.
C8_OnlyDoneLeaves ==
    /\ op = "play"
        => /\ Len(generators) = Len(pre.generators) + 1
           /\ SubSeq(generators, 1, Len(pre.generators)) = pre.generators
    /\ op = "generate"
        => /\ \A j \in 1..Len(generators) :
                \E i \in 1..Len(pre.generators) :
                    generators[j] = after_run(pre.generators[i], Len(output))
           /\ Len(generators) <= Len(pre.generators)
           /\ \A i \in 1..Len(pre.generators) :
                ~reaches_done(pre.generators[i], Len(output))
                    => \E j \in 1..Len(generators) :
                        generators[j] = after_run(pre.generators[i], Len(output))

\* A voice was enqueued while another, already part-way through its
\* envelope, was playing.
C8_Witness ==
    /\ op = "play"
    /\ Len(pre.generators) = 1
    /\ pre.generators[1].offset > 0
    /\ Len(generators) = 2

\* C9: permuting the voice list before a fill call yields the same output
\* buffer.
C9_OrderIndependent ==
    (op = "generate" /\ Len(pre.generators) = 2)
        => output =
            Mixer_generate(<<pre.generators[2], pre.generators[1]>>,
                           Zeros(Len(output))).output

\* One step of the envelope: the same state, or the next phase.
forward_step(from, to) ==
    \/ to = from
    \/ from.tag = "Attack" /\ to.tag = "Decay"
    \/ from.tag = "Decay" /\ to.tag = "Release"
    \/ from.tag = "Release" /\ to.tag = "Done"

\* C10: over any sequence of apply calls, the envelope state moves only
\* forward along Attack, Decay, Release, Done, at most one phase per sample,
\* and stays in Done.  (Every call's trace starts in the state the call
\* before it left.)
C10_EnvelopeForward ==
    env_trace # <<>>
        => /\ \A j \in 1..(Len(env_trace) - 1) :
                forward_step(env_trace[j], env_trace[j + 1])
           /\ env_trace[Len(env_trace)] = env.state

\* One apply call took the envelope from Decay through Release to Done.
C10_Witness ==
    /\ Len(env_trace) >= 3
    /\ \E j \in 1..Len(env_trace), k \in 1..Len(env_trace) :
        /\ j < k
        /\ env_trace[1].tag = "Decay"
        /\ env_trace[j].tag = "Release"
        /\ env_trace[k].tag = "Done"
    /\ env.state = Done

\* The absolute index of the sample at position j of the last apply call
\* (env_trace[j] is the state before it, env_trace[j + 1] the state after).
env_index(j) == env_offset - (Len(env_trace) - 1) + (j - 1)

\* C11: with attack = 0, the gain of the very first sample processed
\* (absolute index 0) is already >= 1.0, and the envelope has left Attack
\* after that sample.
C11_InstantAttack ==
    (env_args.attack = Zero /\ Len(env_trace) >= 2 /\ env_index(1) = 0)
        => /\ FGeq(env_gains[1], One)
           /\ env_trace[2].tag # "Attack"

(***************************************************************************)
(* One voice on a fresh mixer: Mixer::play once, then Mixer::generate call *)
(* after call, with buffers of up to MaxLen + 1 samples.                   *)
(***************************************************************************)
\* Sine samples with every combination of zero and non-zero envelope times.
VoiceSamples ==
    {[Sample_default EXCEPT
        !.osc_type = "Sine", !.osc_frequency = 1,
        !.env_attack = attack, !.env_decay = decay,
        !.env_sustain = sustain, !.env_release = release] :
        attack \in {Zero, F(1, 4)}, decay \in {Zero, F(1, 4)},
        sustain \in {F(1, 2), One}, release \in {Zero, F(1, 4)}}

\* mixer.play(sample) on the mixer as Mixer::new left it
PlayFirst(sample) ==
    /\ plays = 0
    /\ Play(sample)

NextVoice ==
    \/ \E sample \in VoiceSamples : PlayFirst(sample)
    \/ \E len \in 0..(MaxLen + 1), fill \in BufferFills : Generate(len, fill)

SpecVoice == Init /\ [][NextVoice]_vars

\* Sample::default().osc_type(Sine).env_attack(0.0).env_decay(0.0)
\* .env_sustain(1.0).env_release(0.0), at the one frequency whose sine table
\* is rational.
Sample_pinned ==
    [Sample_default EXCEPT
        !.osc_type = "Sine", !.osc_frequency = 1,
        !.env_attack = Zero, !.env_decay = Zero,
        !.env_sustain = One, !.env_release = Zero]

\* The pool of a fresh mixer after mixer.play(sample).
first_voice(sample) ==
    Mixer_play(<<>>, [key \in {} |-> <<>>], sample_rate, sample).generators

\* C12: one Sine voice with attack = 0, decay = 0, sustain = 1, release = 0
\* on a fresh mixer: the first fill of length 4 is the first four samples of
\* the sine table (gain 1 on each of them).
C12_PinnedAtSustain ==
    (/\ op = "generate"
     /\ pre.generators = first_voice(Sample_pinned)
     /\ Len(output) = 4)
        => output = SubSeq(pre.generators[1].oscillator.lut, 1, 4)

\* attack * sample_rate: the attack time in samples.
attack_samples == FMul(env_args.attack, FromInt(sample_rate))

\* C13: for attack > 0, the gain of the sample at absolute index i during
\* Attack is i / (attack * sample_rate), and the envelope leaves Attack (to
\* Decay, which records i) exactly at the first i >= attack * sample_rate:
\* every earlier sample leaves it in Attack.
C13_AttackTime ==
    (env_args.attack # Zero /\ Len(env_trace) >= 2)
        => \A j \in 1..(Len(env_trace) - 1) :
            env_trace[j].tag = "Attack"
                => /\ env_gains[j] = FDiv(FromInt(env_index(j)), attack_samples)
                   /\ FLt(FromInt(env_index(j)), attack_samples)
                        => env_trace[j + 1] = Attack
                   /\ FGeq(FromInt(env_index(j)), attack_samples)
                        => env_trace[j + 1] = Decay(env_index(j))

\* An attack of several samples has run its course in one apply call: gains
\* below 1, then the sample that leaves Attack.
C13_Witness ==
    /\ env_args.attack # Zero
    /\ Len(env_trace) >= 3
    /\ env_index(1) = 0
    /\ \E j \in 2..(Len(env_trace) - 1) :
        /\ env_trace[j] = Attack
        /\ env_trace[j + 1].tag = "Decay"
        /\ FLt(env_gains[j - 1], One)

\* A non-negative finite time in samples, rounded up to a whole sample.
Ceil(x) == (x.n + x.d - 1) \div x.d

\* C14: for decay > 0 and 0 < sustain < 1, the envelope enters Release
\* decay * sample_rate samples (rounded up) after it entered Decay.
C14_DecayTime ==
    (/\ env_args.decay # Zero
     /\ FLt(Zero, env_args.sustain) /\ FLt(env_args.sustain, One)
     /\ Len(env_trace) >= 2)
        => \A j \in 1..(Len(env_trace) - 1) :
            (env_trace[j].tag = "Decay" /\ env_trace[j + 1].tag = "Release")
                => env_trace[j + 1].at - env_trace[j].at
                        = Ceil(FMul(env_args.decay, FromInt(sample_rate)))

\* C15: for release > 0 and 0 < sustain <= 1, the envelope reaches Done
\* release * sample_rate samples (rounded up) after it entered Release.
C15_ReleaseTime ==
    (/\ env_args.release # Zero
     /\ FLt(Zero, env_args.sustain) /\ FLeq(env_args.sustain, One)
     /\ Len(env_trace) >= 2)
        => \A j \in 1..(Len(env_trace) - 1) :
            (env_trace[j].tag = "Release" /\ env_trace[j + 1].tag = "Done")
                => env_index(j) - env_trace[j].at
                        = Ceil(FMul(env_args.release, FromInt(sample_rate)))

\* C16: the distortion of every voice turns a buffer of zeros into a buffer
\* of zeros, whatever its crunch and drive; and a lone voice with
\* distortion contributes zero at every sample its envelope is Done for.
C16_DistortionOfZeros ==
    /\ \A i \in 1..Len(generators) :
        IsSome(generators[i].distortion)
            => \A k \in 1..MaxLen :
                IsZero(Distortion_apply(Unwrap(generators[i].distortion),
                                        Zeros(MaxLen))[k])
    /\ (/\ op = "generate"
        /\ Len(pre.generators) = 1
        /\ IsSome(pre.generators[1].distortion))
            => \A k \in 1..Len(output) :
                state_at(pre.generators[1].envelope,
                         pre.generators[1].offset, k).state = Done
                    => IsZero(output[k])

(***************************************************************************)
(* The table cache on its own: Mixer::play call after call, with samples   *)
(* of every modelled waveform kind, two frequencies and two duty cycles.   *)
(***************************************************************************)
CacheSamples ==
    {[Sample_saw EXCEPT
        !.osc_type = type, !.osc_frequency = frequency,
        !.osc_duty_cycle = duty_cycle] :
        type \in OscillatorType, frequency \in {1, 2},
        duty_cycle \in {"Quarter", "Half"}}

NextCache == \E sample \in CacheSamples : Play(sample)

SpecCache == Init /\ [][NextCache]_vars

\* The voice the last Mixer::play pushed.
newest == generators[Len(generators)]

\* C17: the cache key includes the duty cycle of Square waves: a Square
\* voice reads the table built with its own duty cycle, whatever Square
\* voices of the same frequency were played before it.
C17_DutyCycleInKey ==
    (op = "play" /\ Unwrap(pre.sample).osc_type = "Square")
        => newest.oscillator.lut =
                build_lut("Square", Unwrap(pre.sample).osc_frequency,
                          Unwrap(pre.sample).osc_duty_cycle, sample_rate)

\* C18: the table cache only grows.  A Mixer::generate call leaves it as it
\* was; a Mixer::play call keeps every key it held, with the table stored
\* under it unchanged.
C18_CacheOnlyGrows ==
    /\ op = "generate" => oscillator_lookup = pre.oscillator_lookup
    /\ op = "play"
        => \A key \in DOMAIN pre.oscillator_lookup :
            /\ key \in DOMAIN oscillator_lookup
            /\ oscillator_lookup[key] = pre.oscillator_lookup[key]

\* After a fill, a play call added a key to a cache that already held one.
C18_Witness ==
    /\ op = "play"
    /\ output # <<>>
    /\ DOMAIN pre.oscillator_lookup # {}
    /\ DOMAIN oscillator_lookup # DOMAIN pre.oscillator_lookup

\* The cache key of the sample the last Mixer::play was called with.
played_key ==
    lookup_key(Unwrap(pre.sample).osc_frequency, Unwrap(pre.sample).osc_type)

\* C19: a play call whose key is already cached builds no table and leaves
\* the cache unchanged, and its voice reads a table identical to the cached
\* one; over the whole sequence of play calls build_lut ran once per
\* distinct key, and the cache holds as many tables as distinct keys were
\* requested.
C19_OneBuildPerKey ==
    /\ (op = "play" /\ played_key \in DOMAIN pre.oscillator_lookup)
        => /\ builds = pre.builds
           /\ oscillator_lookup = pre.oscillator_lookup
           /\ newest.oscillator.lut = pre.oscillator_lookup[played_key]
    /\ builds = Cardinality(requested)
    /\ Cardinality(DOMAIN oscillator_lookup) = Cardinality(requested)

\* The second play call asked for the key of the first.
C19_Witness ==
    /\ op = "play"
    /\ plays = 2
    /\ played_key \in DOMAIN pre.oscillator_lookup
    /\ builds = 1

(***************************************************************************)
(* One oscillator on its own: Oscillator::new with any table build_lut can *)
(* return, then rendering after rendering from the running offset, each    *)
(* made twice from zeroed buffers: in one generate call, and split in two. *)
(***************************************************************************)
\* The values formulas::f32_closed_neg_pos can return are in [-1, 1]; these
\* are the ones the Noise tables of the model are made of.
NoiseTones == {FNeg(One), One}

\* The Noise arm of build_lut: one table entry per pcg.next_u32() call, in
\* the order of the calls.  PCG32 is not part of the sources: `stream` is
\* the sequence of tones its outputs are converted to, whatever they are.
build_lut_noise(stream, rate) ==
    LET buffer_size == rate * 2
    IN  [j \in 1..buffer_size |-> stream[j]]

\* The tables an oscillator can be handed.
OscillatorTables(rate) ==
    {build_lut(type, frequency, duty_cycle, rate) :
        type \in OscillatorType, frequency \in {1, 2}, duty_cycle \in DutyCycle}
    \cup {build_lut_noise(stream, rate) : stream \in [1..(2 * rate) -> NoiseTones]}

InitOscillator ==
    /\ Mixer_new
    /\ Envelope_fresh(One, One, One, One)
    /\ \E lut \in OscillatorTables(sample_rate) : Oscillator_fresh(lut)

\* oscillator.generate(&mut buffer, offset) on a zeroed buffer of n + m
\* samples, and the same samples in two calls: n from offset, m from
\* offset + n.
OscGenerate(n, m) ==
    /\ osc_offset + n + m <= MaxOffset
    /\ osc_whole' = Oscillator_generate(osc, Zeros(n + m), osc_offset)
    /\ osc_split' = <<Oscillator_generate(osc, Zeros(n), osc_offset),
                      Oscillator_generate(osc, Zeros(m), osc_offset + n)>>
    /\ osc_offset' = osc_offset + n + m
    /\ UNCHANGED osc
    /\ UNCHANGED mixer_vars
    /\ UNCHANGED env_vars

NextOscillator == \E n \in 0..MaxLen, m \in 0..MaxLen : OscGenerate(n, m)

SpecOscillator == InitOscillator /\ [][NextOscillator]_vars

\* C20: for every waveform kind and every starting offset, N samples and
\* then M samples from offset + N are the N + M samples of one call from
\* offset, for N + M <= sample_rate.
C20_SplitInvariance ==
    Len(osc_whole) <= sample_rate
        => osc_split[1] \o osc_split[2] = osc_whole

\* The outputs of mixer.generate on n samples and then on m samples, one
\* after the other, from the pool `voices`.
split_fill(voices, n, m) ==
    LET first == Mixer_generate(voices, Zeros(n))
    IN  first.output \o Mixer_generate(first.generators, Zeros(m)).output

gains(generator, len) ==
    Envelope_apply(generator.envelope, [k \in 1..len |-> One], generator.offset).buffer

\* A voice C22 speaks of: volume in [0, 1], no distortion, finite slopes
\* (attack, decay and release are positive) and sustain in (0, 1].
bounded_voice(generator) ==
    /\ FLeq(Zero, generator.volume) /\ FLeq(generator.volume, One)
    /\ ~IsSome(generator.distortion)
    /\ IsFinite(generator.envelope.attack_slope)
    /\ IsFinite(generator.envelope.decay_slope)
    /\ IsFinite(generator.envelope.release_slope)
    /\ FLt(Zero, generator.envelope.sustain_height)
    /\ FLeq(generator.envelope.sustain_height, One)

\* C22: with n >= 1 such voices in the pool, every sample a fill writes has
\* absolute value <= 1, and the gain the envelope applies to any sample is
\* in [0, 1].
C22_AmplitudeBounded ==
    (/\ op = "generate"
     /\ Len(pre.generators) >= 1
     /\ \A i \in 1..Len(pre.generators) : bounded_voice(pre.generators[i]))
        => /\ \A k \in 1..Len(output) :
                FLeq(FNeg(One), output[k]) /\ FLeq(output[k], One)
           /\ \A i \in 1..Len(pre.generators), k \in 1..Len(output) :
                /\ FLeq(Zero, gains(pre.generators[i], Len(output))[k])
                /\ FLeq(gains(pre.generators[i], Len(output))[k], One)

\* The offset the last rendering of the oscillator started from.
osc_start == osc_offset - Len(osc_whole)

\* C23: the table has exactly 2 * sample_rate entries, and a rendering of
\* L <= sample_rate samples from any offset reads the L indices
\* (offset mod sample_rate) + k, k < L, every one of them below
\* 2 * sample_rate, and adds the entry at each to its position of the
\* (zeroed) output.
C23_ReadsInsideTable ==
    /\ Len(osc.lut) = 2 * sample_rate
    /\ Len(osc_whole) <= sample_rate
        => LET reads == Oscillator_reads(osc, Len(osc_whole), osc_start)
           IN  /\ reads = {(osc_start % sample_rate) + k :
                                k \in 0..(Len(osc_whole) - 1)}
               /\ \A index \in reads : index < 2 * sample_rate
               /\ \A k \in 1..Len(osc_whole) :
                    osc_whole[k] =
                        FAdd(Zero, osc.lut[(osc_start % sample_rate) + k])

\* A rendering of sample_rate samples that starts at the last index before
\* the wrap: the highest index a rendering within the bound can read.
C23_Witness ==
    /\ Len(osc_whole) = sample_rate
    /\ osc_start % sample_rate = sample_rate - 1
    /\ (2 * sample_rate) - 2 \in Oscillator_reads(osc, Len(osc_whole), osc_start)

\* The cached Sine tables.
sine_keys == {key \in DOMAIN oscillator_lookup : key[2] = "Sine"}

\* C24 as stated: in a Sine table the second half is the sign-inverted
\* first half, table[i] = -table[i + sample_rate] for i in [0, sample_rate).
C24_SineHalvesInverted ==
    \A key \in sine_keys : \A i \in 1..sample_rate :
        FEq(oscillator_lookup[key][i], FNeg(oscillator_lookup[key][i + sample_rate]))

\* C24, amended: in a Sine table the second half repeats the first half,
\* table[i] = table[i + sample_rate] for i in [0, sample_rate).
C24_SineHalvesEqual ==
    \A key \in sine_keys : \A i \in 1..sample_rate :
        FEq(oscillator_lookup[key][i], oscillator_lookup[key][i + sample_rate])

\* A Sine table with non-zero entries is cached.
C24_Witness ==
    \E key \in sine_keys : \E i \in 1..sample_rate :
        ~IsZero(oscillator_lookup[key][i])

\* The envelope of the voice is Done after one of the first len samples of
\* its next buffer.
done_within(generator, len) ==
    \E k \in 1..len :
        state_at(generator.envelope, generator.offset, k + 1).state = Done

\* C25: a voice is marked finished by exactly the run in which its envelope
\* first reaches Done, also when that is in the middle of the buffer (so the
\* voices the fill keeps are those that did not reach Done in it), and the
\* envelope sets to 0.0 every sample of the buffer that comes after the
\* sample that reached Done.
C25_FinishedIffDone ==
    op = "generate"
        => /\ \A i \in 1..Len(pre.generators) :
                LET voice == pre.generators[i]
                IN  /\ after_run(voice, Len(output)).finished
                        <=> done_within(voice, Len(output))
                    /\ \A k \in 1..Len(output) :
                        state_at(voice.envelope, voice.offset, k).state = Done
                            => gains(voice, Len(output))[k] = Zero
           /\ generators =
                SelectSeq([i \in 1..Len(pre.generators) |->
                                after_run(pre.generators[i], Len(output))],
                          LAMBDA voice : voice.envelope.state # Done)
           /\ Len(generators) =
                Cardinality({i \in 1..Len(pre.generators) :
                                ~done_within(pre.generators[i], Len(output))})

\* One of two voices reached Done in the middle of the buffer: samples come
\* after the one that reached Done.
C25_Witness ==
    /\ op = "generate"
    /\ Len(pre.generators) = 2
    /\ Len(generators) = 1
    /\ \E i \in 1..2 :
        state_at(pre.generators[i].envelope, pre.generators[i].offset,
                 Len(output)).state = Done

\* C26: each voice is timed from its own enqueue.  The voice a play call
\* pushes has offset 0, state Attack and finished = false, whatever the
\* mixer has produced before; and every fill call advances the offset of
\* every voice by the full buffer length, also the call in which the voice
\* reaches Done, so that a voice's offset is the sum of the lengths of the
\* buffers filled since its enqueue.
C26_TimedFromEnqueue ==
    /\ op = "play"
        => /\ newest.offset = 0
           /\ newest.envelope.state = Attack
           /\ ~newest.finished
    /\ op = "generate"
        => /\ \A i \in 1..Len(pre.generators) :
                after_run(pre.generators[i], Len(output)).offset
                    = pre.generators[i].offset + Len(output)
           /\ generators =
                SelectSeq([i \in 1..Len(pre.generators) |->
                                after_run(pre.generators[i], Len(output))],
                          LAMBDA voice : ~voice.finished)
           /\ \A j \in 1..Len(generators) :
                \E i \in j..Len(pre.generators) :
                    /\ generators[j].oscillator = pre.generators[i].oscillator
                    /\ generators[j].offset = pre.generators[i].offset + Len(output)

\* After a fill, two voices enqueued at different times are in the pool,
\* each with its own offset.
C26_Witness ==
    /\ op = "generate"
    /\ Len(output) >= 1
    /\ Len(generators) = 2
    /\ generators[1].offset > generators[2].offset
    /\ generators[2].offset = Len(output)

(***************************************************************************)
(* The mixer driven by an audio callback: voices are enqueued before the   *)
(* stream starts, and then the callback calls Mixer::generate with a       *)
(* buffer of at least one sample, again and again.  `tick` flips at each   *)
(* of the callback's calls and at no other step.                           *)
(***************************************************************************)
\* The samples the callback's mixer is given: a preset, and sine voices
\* with and without an attack time, below and at full sustain.
FairSamples ==
    {Sample_triangle} \cup
    {[Sample_default EXCEPT
        !.osc_type = "Sine", !.osc_frequency = 1,
        !.env_attack = attack, !.env_decay = F(1, 4),
        !.env_sustain = sustain, !.env_release = F(1, 4)] :
        attack \in {Zero, F(1, 4)}, sustain \in {F(1, 2), One}}

\* mixer.play(sample) before the first mixer.generate
PlayEarly(sample) ==
    /\ output = <<>>
    /\ op # "generate"
    /\ Play(sample)

\* mixer.generate(&mut buffer) called from the audio callback
Fill(len, fill) ==
    /\ Generate_call(len, fill)
    /\ tick' = 1 - tick

NextFair ==
    \/ \E sample \in FairSamples : PlayEarly(sample)
    \/ \E len \in 1..MaxLen, fill \in BufferFills : Fill(len, fill)

\* The callback makes its next call.
FillCalled == tick' = 1 - tick

\* The callback never stops calling: a step that flips tick happens again
\* and again, and the Fill steps are the only ones that flip it.
SpecFair == Init /\ [][NextFair]_vars /\ WF_tick(FillCalled)

\* A voice C27 speaks of: finite slopes (attack, decay and release are
\* positive and finite) and sustain in (0, 1].
timed_voice(generator) ==
    /\ IsFinite(generator.envelope.attack_slope)
    /\ IsFinite(generator.envelope.decay_slope)
    /\ IsFinite(generator.envelope.release_slope)
    /\ FLt(Zero, generator.envelope.sustain_height)
    /\ FLeq(generator.envelope.sustain_height, One)

\* C27: as long as fill keeps being called with buffers of at least one
\* sample, every voice with positive finite attack, decay and release and
\* sustain in (0, 1] is eventually removed from the pool; once no further
\* voice is enqueued, the pool eventually holds no such voice and stays so.
C27_EventuallyRemoved ==
    <>[](\A i \in 1..Len(generators) : ~timed_voice(generators[i]))

\* A fill removed the last such voice from the pool.
C27_Witness ==
    /\ op = "generate"
    /\ generators = <<>>
    /\ \E i \in 1..Len(pre.generators) : timed_voice(pre.generators[i])

(***************************************************************************)
(* The mixer handed buffers longer than its sample rate: one voice that    *)
(* sounds for more than two seconds, and buffers of up to one sample more  *)
(* than the oscillator table holds (2 * sample_rate entries).              *)
(***************************************************************************)
\* Sample::default().osc_type(..).osc_frequency(1).env_attack(2.0)
\* .env_decay(1.0).env_sustain(0.5).env_release(1.0)
LongSamples ==
    {[Sample_default EXCEPT
        !.osc_type = type, !.osc_frequency = 1,
        !.env_attack = F(2, 1), !.env_decay = One,
        !.env_sustain = F(1, 2), !.env_release = One] :
        type \in OscillatorType}

NextLong ==
    \/ \E sample \in LongSamples : PlayFirst(sample)
    \/ \E len \in 0..(2 * sample_rate + 1), fill \in BufferFills :
            Generate(len, fill)

SpecLong == Init /\ [][NextLong]_vars

\* The rendering of `generator` ran past the end of its oscillator table in
\* a buffer of len samples.
overruns(generator, len) ==
    (generator.offset % generator.oscillator.sample_rate) + len
        > 2 * generator.oscillator.sample_rate

\* C28: a fill of L samples, L larger than the sample rate, with
\* (offset mod sample_rate) + L beyond the table length 2 * sample_rate:
\* the call returns L samples, and each of the L positions had a sample of
\* the voice's oscillator table added to it.
C28_EveryPositionOscillated ==
    op = "generate" =>
        \A i \in 1..Len(pre.generators) :
            overruns(pre.generators[i], Len(output)) =>
                Cardinality(Oscillator_reads(pre.generators[i].oscillator,
                                             Len(output),
                                             pre.generators[i].offset))
                    = Len(output)

=============================================================================
